---- MODULE Spec2Model ----
(***************************************************************************)
(* Akin NevMo (src/akin-nevmo.js): an express backend that proxies         *)
(* donate / save / withdraw requests to the MTN disbursement API and keeps *)
(* an in-memory ledger `transactions` keyed by reference id.               *)
(*                                                                         *)
(* Node runs every handler on one event loop: a handler runs without       *)
(* interruption from one `await` of a provider call to the next.  Each     *)
(* action below is one such uninterrupted segment.                         *)
(***************************************************************************)
EXTENDS Integers, Sequences, FiniteSets, TLC

(***************************************************************************)
(* Bounds of the model.                                                    *)
(***************************************************************************)
\* number of requests handled at the same time, and number of donate, save
\* and withdraw requests that call the provider in one run
MaxReq == 2
\* number of status requests that call the provider in one run
MaxQuery == 2
\* number of milliseconds the wall clock advances in one run
MaxTick == 1
\* Date.now() when the server starts (two decimal digits)
StartTime == 10

(***************************************************************************)
(* JavaScript values.  A JSON body field is absent (undefined), a number   *)
(* or a string; a string is a sequence of one-character strings.           *)
(***************************************************************************)
Undefined == [undef |-> TRUE]
NaN == [nan |-> TRUE]
Num(n) == [num |-> n]
Str(s) == [str |-> s]
IsUndefined(v) == "undef" \in DOMAIN v
IsNaN(v) == "nan" \in DOMAIN v
IsNum(v) == "num" \in DOMAIN v
IsStr(v) == "str" \in DOMAIN v

Digits == <<"0", "1", "2", "3", "4", "5", "6", "7", "8", "9">>
IsDigit(c) == \E i \in 1..10 : Digits[i] = c
DigitVal(c) == (CHOOSE i \in 1..10 : Digits[i] = c) - 1

\* the decimal numeral s read as a number
RECURSIVE ParseDigits(_)
ParseDigits(s) ==
  IF s = <<>> THEN 0
  ELSE 10 * ParseDigits(SubSeq(s, 1, Len(s) - 1)) + DigitVal(s[Len(s)])

\* ToNumber, as `<` applies it to its operands
ToNumber(v) ==
  IF IsNum(v) THEN v
  ELSE IF IsStr(v)
    THEN IF \A i \in 1..Len(v.str) : IsDigit(v.str[i])
           THEN Num(ParseDigits(v.str))
           ELSE NaN
    ELSE NaN

\* !v
Not(v) ==
  \/ IsUndefined(v)
  \/ IsNaN(v)
  \/ IsNum(v) /\ v.num = 0
  \/ IsStr(v) /\ v.str = <<>>

\* v < n : a comparison with NaN is false
LessThan(v, n) == IsNum(ToNumber(v)) /\ ToNumber(v).num < n

\* Number.prototype.toString of an integer
RECURSIVE NatToString(_)
NatToString(n) ==
  IF n < 10 THEN <<Digits[n + 1]>>
  ELSE NatToString(n \div 10) \o <<Digits[(n % 10) + 1]>>

NumToString(n) == IF n < 0 THEN <<"-">> \o NatToString(0 - n) ELSE NatToString(n)

\* v.toString() for a number or a string
JsToString(v) == IF IsNum(v) THEN NumToString(v.num) ELSE v.str

\* s.replace(/\D/g, '')
StripNonDigits(s) == SelectSeq(s, IsDigit)

(***************************************************************************)
(* Configuration.                                                          *)
(***************************************************************************)
PLATFORM_PHONE == <<"2", "3", "1", "8", "8", "7", "7", "1", "6", "9", "7", "3">>
\* minimum amount accepted by donate / save / withdraw
MinAmount == 100
\* minimum number of digits of a phone number
MinPhoneDigits == 10

(***************************************************************************)
(* Provider (MTN) replies, as axios delivers them.                         *)
(***************************************************************************)
\* response.data of an accepted POST /disbursement/v1_0/transfer
TransferAccepted == [ok |-> TRUE, data |-> [accepted |-> TRUE]]
\* a call the provider never answers: error.response is undefined
Unreachable == [ok |-> FALSE, data |-> Undefined]
\* a call the provider answers with an error payload (error.response.data)
Rejected == [ok |-> FALSE, data |-> [error |-> "PROVIDER_ERROR"]]
\* what the provider can answer to a transfer request
TransferReplies == {TransferAccepted, Rejected}
\* response.data of GET /disbursement/v1_0/transfer/{id}, with and without
\* a status field
StatusPayloads ==
  {[ok |-> TRUE, data |-> [status |-> "SUCCESSFUL"]],
   [ok |-> TRUE, data |-> [financialTransactionId |-> "1"]]}
\* the ways a status query fails
StatusFailures == {Unreachable, Rejected}

\* error.response?.data?.error || generic
ErrorMessage(reply, generic) ==
  IF "error" \in DOMAIN reply.data THEN reply.data.error ELSE generic

\* response.data.status || 'UNKNOWN'
StatusOrUnknown(data) == IF "status" \in DOMAIN data THEN data.status ELSE "UNKNOWN"

(***************************************************************************)
(* Request inputs.                                                         *)
(***************************************************************************)
ShortPhone == <<"1", "2", "3">>
\* nine digits in twelve characters
NineDigitPhone == <<"2", "3", "1", "-", "8", "8", "7", "-", "7", "1", "6", " ">>
\* a caller's number as typed, with a plus sign and a space
FormattedPhone ==
  <<"+", "2", "3", "7", " ", "6", "7", "7", "1", "2", "3", "4", "5", "6">>
\* the bodies of requests handled one at a time
PhoneInputs ==
  {Undefined, Str(<<>>), Str(ShortPhone), Str(NineDigitPhone), Str(FormattedPhone),
   Num(1234567890)}
AmountInputs ==
  {Undefined, Num(0 - 1), Num(0), Num(99), Num(100), Num(500),
   Str(<<"5", "0">>), Str(<<"a", "b", "c">>)}
GoalInputs == {Undefined, Str(<<"c", "a", "r">>)}
\* the bodies of requests handled concurrently
ConcurrentPhones == {Str(FormattedPhone)}
ConcurrentAmounts == {Num(100), Num(500)}
ConcurrentGoals == {Str(<<"c", "a", "r">>)}

\* property names every object literal inherits from Object.prototype
ObjectPrototypeKeys ==
  {<<"c", "o", "n", "s", "t", "r", "u", "c", "t", "o", "r">>,
   <<"t", "o", "S", "t", "r", "i", "n", "g">>,
   <<"v", "a", "l", "u", "e", "O", "f">>,
   <<"_", "_", "p", "r", "o", "t", "o", "_", "_">>}
\* reference ids Date.now().toString() can produce in one run
ClockIds == {NumToString(t) : t \in StartTime..(StartTime + MaxTick)}
\* :referenceId of GET /api/transaction/:referenceId
ReferenceInputs ==
  ClockIds \cup {<<"9", "9">>, <<"c", "o", "n", "s", "t", "r", "u", "c", "t", "o", "r">>}
ConcurrentReferences == ClockIds \cup {<<"9", "9">>}

(***************************************************************************)
(* State.                                                                  *)
(***************************************************************************)
VARIABLES
  transactions,  \* the ledger: reference id -> record (own properties)
  now,           \* Date.now()
  provider,      \* reference ids of the transfers the provider has accepted
  reqs,          \* the requests being handled, by connection
  out,           \* the request answered in this step, with its response
  donated,       \* <<transaction id, amount>> of the donations answered success
  received,      \* number of transfer requests that called the provider
  queried        \* number of status requests that called the provider

vars == <<transactions, now, provider, reqs, out, donated, received, queried>>

\* transactions[key]: an own property, else one inherited from Object.prototype
Get(obj, key) ==
  IF key \in DOMAIN obj THEN obj[key]
  ELSE IF key \in ObjectPrototypeKeys THEN [builtin |-> key]
  ELSE Undefined

\* ['INITIATED', 'ACCEPTED'].includes(v.status)
NonFinalStatuses == {"INITIATED", "ACCEPTED"}

\* IsNonFinal treating every status of a record as not final
IsNonFinalAlways(v) == "status" \in DOMAIN v

IsNonFinal(v) == "status" \in DOMAIN v /\ v.status \in NonFinalStatuses

\* a connection with no request on it
Idle == [pc |-> "idle"]
Conns == 1..MaxReq
InFlight == {r \in Conns : reqs[r] # Idle}

\* a request as the handler first sees it
NewRequest(kind, phone, amount, goal, ref) ==
  [kind |-> kind, phone |-> phone, amount |-> amount, goal |-> goal, ref |-> ref,
   pc |-> "start", recipient |-> Undefined, message |-> Undefined,
   xref |-> Undefined, local |-> FALSE, reply |-> Undefined,
   tokenCalls |-> 0, sent |-> <<>>, statusCalls |-> 0,
   resp |-> Undefined,
   after |-> IF IsStr(ref) THEN {d[2] : d \in {e \in donated : e[1] = ref.str}}
             ELSE {}]

\* res.status(code).json(body)
Respond(q, code, body) == [q EXCEPT !.pc = "done", !.resp = [code |-> code] @@ body]

Failure(msg) == [success |-> FALSE, error |-> msg]

\* the donations answered success, once q is answered
Donated(q) ==
  IF q.kind = "donate" /\ q.resp.code = 200
    THEN donated \cup {<<q.resp.transactionId, q.amount>>}
    ELSE donated

Init ==
  /\ transactions = <<>>
  /\ now = StartTime
  /\ provider = {}
  /\ reqs = [r \in Conns |-> Idle]
  /\ out = Undefined
  /\ donated = {}
  /\ received = 0
  /\ queried = 0

\* request r runs up to its next await, or to its response
Continue(r, q) ==
  IF q.pc = "done"
    THEN /\ reqs' = [reqs EXCEPT ![r] = Idle]
         /\ out' = q
         /\ donated' = Donated(q)
    ELSE /\ reqs' = [reqs EXCEPT ![r] = q]
         /\ out' = Undefined
         /\ donated' = donated

(***************************************************************************)
(* sendMoney.                                                              *)
(***************************************************************************)
\* the record sendMoney stores before the transfer call
InitiatedRecord(xReferenceId, amount, recipientPhone, message) ==
  [id |-> xReferenceId, amount |-> amount, recipient |-> recipientPhone,
   message |-> message, status |-> "INITIATED", createdAt |-> now]

\* the body and the X-Reference-Id header of the transfer call
TransferRequest(xReferenceId, amount, recipientPhone, message) ==
  [amount |-> JsToString(amount), currency |-> "XAF", externalId |-> xReferenceId,
   payee |-> [partyIdType |-> "MSISDN", partyId |-> recipientPhone],
   payerMessage |-> message, payeeNote |-> "From Akin NevMo",
   xReferenceId |-> xReferenceId]

\* AcceptedRecord without the status update of line 107
AcceptedRecordStatusKept(rec, data) == ("mtmResponse" :> data) @@ rec

\* the record after the transfer call succeeded
AcceptedRecord(rec, data) ==
  ("mtmResponse" :> data) @@ [rec EXCEPT !.status = "ACCEPTED"]

\* SendMoneyCatch storing a FAILED record under the key its undefined
\* xReferenceId converts to
SendMoneyCatchRecordsFailure(ledger, reply) ==
  [ledger |-> (<<"u", "n", "d", "e", "f", "i", "n", "e", "d">> :>
                 [status |-> "FAILED", error |-> reply.data]) @@ ledger,
   message |-> "Transfer failed"]

\* sendMoney's catch block.  xReferenceId is a const of the try block and is
\* not in scope here: evaluating transactions[xReferenceId] throws a
\* ReferenceError, which leaves the ledger as it is and replaces the error
\* sendMoney meant to throw.
SendMoneyCatch(ledger, reply) ==
  [ledger |-> ledger, message |-> "xReferenceId is not defined"]

\* SendMoneyBegin posting the token request twice
SendMoneyBeginTwoTokens(q, recipientPhone, message) ==
  [q EXCEPT !.pc = "smToken", !.recipient = Str(recipientPhone), !.message = message,
            !.tokenCalls = @ + 2]

\* sendMoney up to its first await: getAccessToken posts the token request
SendMoneyBegin(q, recipientPhone, message) ==
  [q EXCEPT !.pc = "smToken", !.recipient = Str(recipientPhone), !.message = message,
            !.tokenCalls = @ + 1]

(***************************************************************************)
(* The validation of the three handlers.                                   *)
(***************************************************************************)
\* AmountRejected without the minimum: !amount
AmountRejectedNoMinimum(amount) == Not(amount)

\* !amount || amount < 100
AmountRejected(amount) == Not(amount) \/ LessThan(amount, MinAmount)

\* PhoneRejected with the length of a nine-digit number let through
PhoneRejectedOffByOne(cleanPhone) == Len(cleanPhone) < MinPhoneDigits - 1

\* cleanPhone.length < 10
PhoneRejected(cleanPhone) == Len(cleanPhone) < MinPhoneDigits

\* the recipient donate passes to sendMoney
DonateRecipient(cleanPhone) == PLATFORM_PHONE
\* the recipient save passes to sendMoney
SaveRecipient == PLATFORM_PHONE
\* WithdrawRecipient sending to the platform, as donate does
WithdrawRecipientPlatform(cleanPhone) == PLATFORM_PHONE

\* the recipient withdraw passes to sendMoney
WithdrawRecipient(cleanPhone) == cleanPhone

\* a request arrives and runs up to its first await, or to its response
Receive(q) ==
  IF q.pc = "done"
    THEN /\ out' = q
         /\ UNCHANGED <<reqs, donated, received, queried>>
    ELSE /\ IF q.kind = "status"
              THEN /\ queried < MaxQuery
                   /\ queried' = queried + 1
                   /\ received' = received
              ELSE /\ received < MaxReq
                   /\ received' = received + 1
                   /\ queried' = queried
         /\ \E r \in Conns :
              /\ reqs[r] = Idle
              /\ \A k \in 1..(r - 1) : reqs[k] # Idle
              /\ Continue(r, q)

\* POST /api/donate {phone, amount}, up to its first await or its response
DonateHandler(phone, amount) ==
  LET q == NewRequest("donate", phone, amount, Undefined, Undefined)
      cleanPhone == StripNonDigits(phone.str)
      message == [text |-> "Donation from Akin NevMo from ", arg |-> cleanPhone]
  IN IF Not(phone) \/ AmountRejected(amount)
       THEN Respond(q, 400,
              Failure("Valid phone number and amount (min 100 XAF) required"))
     ELSE IF ~IsStr(phone)
       THEN Respond(q, 500, Failure("phone.replace is not a function"))
     ELSE IF PhoneRejected(cleanPhone)
       THEN Respond(q, 400, Failure("Invalid phone number"))
     ELSE SendMoneyBegin(q, DonateRecipient(cleanPhone), message)

\* Donate storing a record of the attempt before it validates the request
DonateRecordsFirst(phone, amount) ==
  /\ Receive(DonateHandler(phone, amount))
  /\ transactions' =
       (NumToString(now) :>
          InitiatedRecord(NumToString(now), amount, PLATFORM_PHONE, Undefined))
       @@ transactions
  /\ UNCHANGED <<now, provider>>

Donate(phone, amount) ==
  /\ Receive(DonateHandler(phone, amount))
  /\ UNCHANGED <<transactions, now, provider>>

\* POST /api/save {goal, amount}, up to its first await or its response
SaveHandler(goal, amount) ==
  LET q == NewRequest("save", Undefined, amount, goal, Undefined)
      message == [text |-> "Savings for (monthly)", arg |-> goal.str]
  IN IF Not(goal) \/ AmountRejected(amount)
       THEN Respond(q, 400, Failure("Goal and amount (min 100 XAF) required"))
     ELSE SendMoneyBegin(q, SaveRecipient, message)

Save(goal, amount) ==
  /\ Receive(SaveHandler(goal, amount))
  /\ UNCHANGED <<transactions, now, provider>>

\* POST /api/withdraw {phone, amount}, up to its first await or its response
WithdrawHandler(phone, amount) ==
  LET q == NewRequest("withdraw", phone, amount, Undefined, Undefined)
      cleanPhone == StripNonDigits(phone.str)
      message == [text |-> "Withdrawal from Akin NevMo savings", arg |-> <<>>]
  IN IF Not(phone) \/ AmountRejected(amount)
       THEN Respond(q, 400,
              Failure("Valid phone number and amount (min 100 XAF) required"))
     ELSE IF ~IsStr(phone)
       THEN Respond(q, 500, Failure("phone.replace is not a function"))
     ELSE IF PhoneRejected(cleanPhone)
       THEN Respond(q, 400, Failure("Invalid phone number"))
     ELSE SendMoneyBegin(q, WithdrawRecipient(cleanPhone), message)

Withdraw(phone, amount) ==
  /\ Receive(WithdrawHandler(phone, amount))
  /\ UNCHANGED <<transactions, now, provider>>

\* the token request of sendMoney returns: on success sendMoney takes its
\* reference id from the clock, stores the record and posts the transfer
SendMoneyAfterToken(r, tokenOk) ==
  /\ r \in Conns
  /\ reqs[r].pc = "smToken"
  /\ LET q == reqs[r]
         xReferenceId == NumToString(now)
         caught == SendMoneyCatch(transactions, Unreachable)
     IN IF tokenOk
          THEN /\ transactions' =
                    (xReferenceId :>
                       InitiatedRecord(xReferenceId, q.amount, q.recipient.str, q.message))
                    @@ transactions
               /\ Continue(r,
                    [q EXCEPT !.pc = "smTransfer", !.xref = Str(xReferenceId),
                              !.sent = Append(@,
                                 TransferRequest(xReferenceId, q.amount,
                                                 q.recipient.str, q.message))])
          ELSE /\ transactions' = caught.ledger
               /\ Continue(r, Respond(q, 500, Failure(caught.message)))
  /\ UNCHANGED <<now, provider, received, queried>>

\* the provider handles a transfer request
ProviderTransfer(r, reply) ==
  /\ r \in Conns
  /\ reqs[r].pc = "smTransfer"
  /\ provider' = IF reply.ok THEN provider \cup {reqs[r].xref.str} ELSE provider
  /\ Continue(r, [reqs[r] EXCEPT !.pc = "smReply", !.reply = reply])
  /\ UNCHANGED <<transactions, now, received, queried>>

\* the body of a handler's success response
Initiated(q, transactionId) ==
  [success |-> TRUE, message |-> [text |-> "initiated", amount |-> q.amount],
   transactionId |-> transactionId]

\* the transfer call of sendMoney returns, and the handler answers
SendMoneyAfterTransfer(r) ==
  /\ r \in Conns
  /\ reqs[r].pc = "smReply"
  /\ LET q == reqs[r]
         xReferenceId == q.xref.str
         caught == SendMoneyCatch(transactions, q.reply)
     IN IF q.reply.ok
          THEN /\ transactions' = [transactions EXCEPT ![xReferenceId] =
                                     AcceptedRecord(@, q.reply.data)]
               /\ Continue(r, Respond(q, 200, Initiated(q, xReferenceId)))
          ELSE /\ transactions' = caught.ledger
               /\ Continue(r, Respond(q, 500, Failure(caught.message)))
  /\ UNCHANGED <<now, provider, received, queried>>

(***************************************************************************)
(* getTransferStatus and GET /api/transaction/:referenceId.                *)
(***************************************************************************)
\* an object is truthy, undefined is not
Truthy(v) == ~IsUndefined(v)

\* the record after a status reply.  A key that is no own property of the
\* ledger is a builtin of Object.prototype; the handler never queries the
\* provider for one, so the ledger has nothing to update for it.
RefreshedLedger(ledger, referenceId, data) ==
  IF referenceId \in DOMAIN ledger
    THEN [ledger EXCEPT ![referenceId] =
            ("statusDetails" :> data) @@ [@ EXCEPT !.status = StatusOrUnknown(data)]]
    ELSE ledger

\* getTransferStatus up to its first await
GetTransferStatusBegin(q, local) ==
  [q EXCEPT !.pc = "gsToken", !.local = local, !.tokenCalls = @ + 1]

\* GET /api/transaction/:referenceId, up to its first await or its response
GetTransactionHandler(referenceId) ==
  LET q == NewRequest("status", Undefined, Undefined, Undefined, Str(referenceId))
      rec == Get(transactions, referenceId)
  IN IF Truthy(rec)
       THEN IF IsNonFinal(rec)
              THEN GetTransferStatusBegin(q, TRUE)
              ELSE Respond(q, 200, [success |-> TRUE, transaction |-> rec])
       ELSE GetTransferStatusBegin(q, FALSE)

GetTransaction(referenceId) ==
  /\ Receive(GetTransactionHandler(referenceId))
  /\ UNCHANGED <<transactions, now, provider>>

\* the token request of getTransferStatus returns
GetTransferStatusAfterToken(r, tokenOk) ==
  /\ r \in Conns
  /\ reqs[r].pc = "gsToken"
  /\ Continue(r,
       IF tokenOk
         THEN [reqs[r] EXCEPT !.pc = "gsGet", !.statusCalls = @ + 1]
         ELSE Respond(reqs[r], 404, Failure("Failed to get transfer status")))
  /\ UNCHANGED <<transactions, now, provider, received, queried>>

\* what the provider can answer to a status query
StatusReplies(referenceId) ==
  (IF referenceId \in provider THEN StatusPayloads ELSE {}) \cup StatusFailures

\* the status query returns, and the handler answers
GetTransferStatusAfterGet(r, reply) ==
  /\ r \in Conns
  /\ reqs[r].pc = "gsGet"
  /\ reply \in StatusReplies(reqs[r].ref.str)
  /\ LET q == reqs[r]
         referenceId == q.ref.str
         refreshed == IF Truthy(Get(transactions, referenceId))
                        THEN RefreshedLedger(transactions, referenceId, reply.data)
                        ELSE transactions
     IN IF reply.ok
          THEN /\ transactions' = refreshed
               /\ Continue(r,
                    IF q.local
                      THEN Respond(q, 200,
                             [success |-> TRUE,
                              transaction |-> Get(refreshed, referenceId),
                              mtmStatus |-> reply.data])
                      ELSE Respond(q, 200,
                             [success |-> TRUE,
                              message |-> "Transaction found in MTN system",
                              mtmStatus |-> reply.data]))
          ELSE /\ transactions' = transactions
               /\ Continue(r,
                    Respond(q, 404,
                      Failure(ErrorMessage(reply, "Failed to get transfer status"))))
  /\ UNCHANGED <<now, provider, received, queried>>

\* the wall clock advances by a millisecond
Tick ==
  /\ now < StartTime + MaxTick
  /\ now' = now + 1
  /\ out' = Undefined
  /\ UNCHANGED <<transactions, provider, reqs, donated, received, queried>>

\* the steps that continue a request in flight, and the clock
Proceed ==
  \/ \E r \in Conns, tokenOk \in BOOLEAN : SendMoneyAfterToken(r, tokenOk)
  \/ \E r \in Conns, reply \in TransferReplies :
       ProviderTransfer(r, reply)
  \/ \E r \in Conns : SendMoneyAfterTransfer(r)
  \/ \E r \in Conns, tokenOk \in BOOLEAN : GetTransferStatusAfterToken(r, tokenOk)
  \/ \E r \in Conns, reply \in StatusPayloads \cup StatusFailures :
       GetTransferStatusAfterGet(r, reply)
  \/ Tick

\* requests arrive at any time
Next ==
  \/ \E phone \in ConcurrentPhones, amount \in ConcurrentAmounts : Donate(phone, amount)
  \/ \E goal \in ConcurrentGoals : Save(goal, Num(MinAmount))
  \/ \E phone \in ConcurrentPhones : Withdraw(phone, Num(MinAmount))
  \/ \E referenceId \in ConcurrentReferences : GetTransaction(referenceId)
  \/ Proceed

Spec == Init /\ [][Next]_vars

\* the response of the last step is on the wire
Flush ==
  /\ out # Undefined
  /\ out' = Undefined
  /\ UNCHANGED <<transactions, now, provider, reqs, donated, received, queried>>

\* no request is being handled or answered
Quiet == InFlight = {} /\ out = Undefined

\* a request arrives once the one before it is answered
NextInputs ==
  \/ Quiet /\ \E phone \in PhoneInputs, amount \in AmountInputs : Donate(phone, amount)
  \/ Quiet /\ \E goal \in GoalInputs, amount \in AmountInputs : Save(goal, amount)
  \/ Quiet /\ \E phone \in PhoneInputs, amount \in AmountInputs : Withdraw(phone, amount)
  \/ Quiet /\ \E referenceId \in ReferenceInputs : GetTransaction(referenceId)
  \/ Flush
  \/ Proceed

SpecInputs == Init /\ [][NextInputs]_vars

(***************************************************************************)
(* Properties.                                                             *)
(***************************************************************************)
TransferKinds == {"donate", "save", "withdraw"}
Answered == out # Undefined
\* the requests being handled, and the one answered in this step
Requests == {reqs[r] : r \in InFlight} \cup (IF Answered THEN {out} ELSE {})

\* C1: when donate, save or withdraw answers success, the ledger holds a
\* record under the X-Reference-Id of the transfer request, the status of that
\* record is ACCEPTED, and the transactionId of the answer is that id.
C1_SuccessfulTransferIsAccepted ==
  (Answered /\ out.kind \in TransferKinds /\ out.resp.success) =>
    /\ Len(out.sent) = 1
    /\ out.sent[1].xReferenceId \in DOMAIN transactions
    /\ transactions[out.sent[1].xReferenceId].status = "ACCEPTED"
    /\ out.resp.transactionId = out.sent[1].xReferenceId
    /\ out.sent[1].externalId = out.sent[1].xReferenceId

\* a withdrawal is answered success while another transfer is in flight
C1_Witness ==
  /\ Answered /\ out.kind = "withdraw" /\ out.resp.success
  /\ \E r \in InFlight : reqs[r].kind \in TransferKinds

\* the digits of s, in order
RECURSIVE DigitsOf(_)
DigitsOf(s) ==
  IF s = <<>> THEN <<>>
  ELSE IF IsDigit(Head(s)) THEN <<Head(s)>> \o DigitsOf(Tail(s))
  ELSE DigitsOf(Tail(s))

\* C2 as stated: the payee of every transfer request is the platform number
\* for donate and save, and the phone the caller supplied for withdraw.
C2_PayeeIsSuppliedPhone ==
  \A q \in Requests : \A i \in 1..Len(q.sent) :
    q.sent[i].payee.partyId =
      IF q.kind = "withdraw" THEN q.phone.str ELSE PLATFORM_PHONE

\* C2, amended: the payee of every transfer request is the platform number
\* for donate and save, whatever phone the caller supplied, and for withdraw
\* the digits of the phone the caller supplied.
C2_PayeeIsPlatformOrDigits ==
  \A q \in Requests : \A i \in 1..Len(q.sent) :
    q.sent[i].payee.partyId =
      IF q.kind = "withdraw" THEN DigitsOf(q.phone.str) ELSE PLATFORM_PHONE

\* a withdrawal to a formatted phone has sent its transfer request
C2_Witness ==
  \E q \in Requests :
    q.kind = "withdraw" /\ Len(q.sent) = 1 /\ q.phone = Str(FormattedPhone)

\* C3: a donate, save or withdraw request whose amount is a number below 100
\* is answered 400 with success false, and makes no token request and no
\* transfer request.
C3_LowAmountRejected ==
  /\ \A r \in InFlight :
       reqs[r].kind \in TransferKinds =>
         ~(IsNum(reqs[r].amount) /\ reqs[r].amount.num < 100)
  /\ (Answered /\ out.kind \in TransferKinds
        /\ IsNum(out.amount) /\ out.amount.num < 100) =>
       /\ out.resp.code = 400
       /\ out.resp.success = FALSE
       /\ out.tokenCalls = 0
       /\ out.sent = <<>>

\* a withdrawal of a negative amount to a valid phone is answered
C3_Witness ==
  /\ Answered /\ out.kind = "withdraw"
  /\ out.amount = Num(0 - 1) /\ out.phone = Str(FormattedPhone)
  /\ out.resp.code = 400

\* C4: a donate or withdraw request whose phone is a string with fewer than
\* ten digits is answered 400 and sends no transfer request, whatever the
\* amount.
C4_ShortPhoneRejected ==
  /\ \A r \in InFlight :
       (reqs[r].kind \in {"donate", "withdraw"} /\ IsStr(reqs[r].phone)) =>
         Len(DigitsOf(reqs[r].phone.str)) >= 10
  /\ (Answered /\ out.kind \in {"donate", "withdraw"}
        /\ IsStr(out.phone) /\ Len(DigitsOf(out.phone.str)) < 10) =>
       /\ out.resp.code = 400
       /\ out.resp.success = FALSE
       /\ out.sent = <<>>

\* a donation of a valid amount from a twelve-character phone of nine digits
\* is answered
C4_Witness ==
  /\ Answered /\ out.kind = "donate"
  /\ out.phone = Str(NineDigitPhone) /\ out.amount = Num(500)
  /\ out.resp.code = 400

\* how far a status is along INITIATED, ACCEPTED, final
StatusRank(status) ==
  IF status = "INITIATED" THEN 0 ELSE IF status = "ACCEPTED" THEN 1 ELSE 2

\* this step of sendMoney stores a new record under id
Initiates(id) ==
  \E r \in Conns :
    reqs[r].pc = "smToken" /\ reqs'[r].pc = "smTransfer" /\ reqs'[r].xref = Str(id)

\* C5: the status of a ledger record only moves forward: from INITIATED to
\* ACCEPTED to a final status, or from INITIATED to FAILED; it never goes
\* back, and a final status never changes.  (A step of sendMoney that stores
\* a new record under the id starts the life of another record and is not
\* counted as a move.)
C5_StatusOnlyMovesForward ==
  [][\A id \in DOMAIN transactions :
       \/ Initiates(id)
       \/ transactions'[id].status = transactions[id].status
       \/ StatusRank(transactions'[id].status) > StatusRank(transactions[id].status)]_vars

\* C6: every transfer initiation takes a reference id that no earlier
\* initiation took: the ledger holds no record under it yet, so no record is
\* overwritten.
C6_ReferenceIdNeverReused ==
  [][\A id \in ClockIds : Initiates(id) => id \notin DOMAIN transactions]_vars

\* C7: a status request for a reference id whose ledger record has a final
\* status is answered at once with that record, makes no token request and no
\* status query, and leaves the ledger as it is.
C7_FinalStatusServedFromLedger ==
  [][\A referenceId \in ReferenceInputs :
       (/\ referenceId \in DOMAIN transactions
        /\ transactions[referenceId].status \notin {"INITIATED", "ACCEPTED"}
        /\ GetTransaction(referenceId)) =>
         /\ out' # Undefined
         /\ out'.kind = "status" /\ out'.ref = Str(referenceId)
         /\ out'.resp.code = 200 /\ out'.resp.success
         /\ out'.resp.transaction = transactions[referenceId]
         /\ out'.tokenCalls = 0 /\ out'.statusCalls = 0
         /\ transactions' = transactions
         /\ reqs' = reqs]_vars

\* a status request is answered from a ledger record the provider reported
\* SUCCESSFUL
C7_Witness ==
  /\ Answered /\ out.kind = "status"
  /\ out.tokenCalls = 0 /\ out.resp.code = 200
  /\ out.ref.str \in DOMAIN transactions
  /\ transactions[out.ref.str].status = "SUCCESSFUL"

\* C8: a status request for a reference id that has no ledger record and that
\* the provider does not know is answered 404 with success false.
C8_UnknownReferenceIs404 ==
  (/\ Answered /\ out.kind = "status"
   /\ out.ref.str \notin DOMAIN transactions
   /\ out.ref.str \notin provider) =>
    out.resp.code = 404 /\ out.resp.success = FALSE

\* the request that was answered failed in a provider call
ProviderCallFailed == Answered /\ out.tokenCalls > 0 /\ ~out.resp.success

\* C9: a failed token request, a failed transfer request and a failed status
\* query for a reference id the ledger knows are answered 500; 404 answers
\* only a reference id that neither the ledger nor the provider knows.
C9_ProviderFailureIs500 ==
  /\ (ProviderCallFailed /\ out.kind \in TransferKinds) => out.resp.code = 500
  /\ (ProviderCallFailed /\ out.kind = "status" /\ out.statusCalls = 0) =>
       out.resp.code = 500
  /\ (ProviderCallFailed /\ out.kind = "status" /\ out.statusCalls > 0
        /\ out.ref.str \in DOMAIN transactions) => out.resp.code = 500
  /\ (Answered /\ out.resp.code = 404) =>
       /\ out.kind = "status"
       /\ out.ref.str \notin DOMAIN transactions
       /\ out.ref.str \notin provider

\* C10: once a donation of amount A is answered success with transaction id
\* T, every later status request for T is answered success with a record whose
\* amount is A.
C10_DonationStaysVisible ==
  (Answered /\ out.kind = "status" /\ out.after # {}) =>
    /\ out.resp.success
    /\ "transaction" \in DOMAIN out.resp
    /\ \A amount \in out.after : out.resp.transaction.amount = amount

\* the amount is a number of at least 100
AmountIsValid(q) == IsNum(q.amount) /\ q.amount.num >= MinAmount

\* the phone, where the handler requires one, is a string that holds at least
\* ten digits
PhoneIsValid(q) ==
  q.kind = "save" \/ (IsStr(q.phone) /\ Len(DigitsOf(q.phone.str)) >= MinPhoneDigits)

\* C11: a donate, save or withdraw request whose amount is not a number of at
\* least 100, or whose required phone is not a string of at least ten digits,
\* is answered 400 and makes no token request and no transfer request; no
\* such request is ever waiting for the provider.
C11_InvalidInputIs400 ==
  /\ \A r \in InFlight :
       reqs[r].kind \in TransferKinds => AmountIsValid(reqs[r]) /\ PhoneIsValid(reqs[r])
  /\ (Answered /\ out.kind \in TransferKinds
        /\ ~(AmountIsValid(out) /\ PhoneIsValid(out))) =>
       /\ out.resp.code = 400
       /\ out.tokenCalls = 0
       /\ out.sent = <<>>

\* C12: the step that answers a donate, save or withdraw request 400 leaves
\* the ledger as it is, and the request it answers took no reference id and
\* sent no transfer request: it created no record and modified none.
C12_RejectedRequestLeavesLedger ==
  [][(out' # Undefined /\ out'.kind \in TransferKinds /\ out'.resp.code = 400) =>
       /\ transactions' = transactions
       /\ out'.xref = Undefined
       /\ out'.sent = <<>>]_vars

\* a withdrawal to a short phone is answered 400 while the ledger holds an
\* ACCEPTED record
C12_Witness ==
  /\ Answered /\ out.kind = "withdraw" /\ out.resp.code = 400
  /\ out.phone = Str(ShortPhone) /\ out.amount = Num(500)
  /\ \E id \in DOMAIN transactions : transactions[id].status = "ACCEPTED"

\* C13: when the transfer request of a donate, save or withdraw request is
\* not accepted by the provider, the request is answered with an error, and
\* the ledger record under its reference id has status FAILED and holds the
\* error.
C13_FailedTransferIsMarkedFailed ==
  (Answered /\ out.kind \in TransferKinds /\ Len(out.sent) = 1 /\ ~out.reply.ok) =>
    /\ ~out.resp.success
    /\ out.xref.str \in DOMAIN transactions
    /\ transactions[out.xref.str].status = "FAILED"
    /\ "error" \in DOMAIN transactions[out.xref.str]

\* request r stores or changes the ledger record under id in this step
Writes(r, id) ==
  /\ reqs[r] # Idle /\ reqs'[r] # reqs[r]
  /\ id \in DOMAIN transactions'
  /\ (id \in DOMAIN transactions => transactions'[id] # transactions[id])

\* request s is a transfer in flight that stored its record under id
HasWritten(s, id) ==
  reqs[s] # Idle /\ reqs[s].kind \in TransferKinds /\ reqs[s].xref = Str(id)

\* C14: a request writes the ledger record of a reference id under which a
\* transfer still in flight stored its record only when it is itself a
\* transfer that took the same reference id; a status request never writes
\* the record of a transfer that is in flight.
C14_OnlyCollidingTransfersShareRecord ==
  [][\A r \in Conns, s \in Conns, id \in ReferenceInputs :
       (r # s /\ Writes(r, id) /\ HasWritten(s, id)) =>
         reqs[r].kind \in TransferKinds]_vars

\* request r as it is after this step: in flight, or answered
After(r) == IF reqs'[r] = Idle THEN out' ELSE reqs'[r]

\* C15: a donate, save or withdraw request makes at most one token request
\* and at most one transfer request; the step in which its token request or
\* its transfer request turns out to have failed answers it with an error,
\* with no further token request and no further transfer request.
C15_NoRetry ==
  [][\A r \in Conns :
       /\ (reqs'[r] # Idle /\ reqs'[r].kind \in TransferKinds) =>
            reqs'[r].tokenCalls <= 1 /\ Len(reqs'[r].sent) <= 1
       /\ (reqs[r] # Idle /\ reqs[r].kind \in TransferKinds /\ reqs'[r] # reqs[r]) =>
            /\ After(r).tokenCalls <= 1 /\ Len(After(r).sent) <= 1
            /\ (reqs[r].pc = "smToken" /\ After(r).sent = <<>>) =>
                 /\ After(r).pc = "done" /\ ~After(r).resp.success
                 /\ After(r).tokenCalls = reqs[r].tokenCalls
            /\ (reqs[r].pc = "smReply" /\ ~reqs[r].reply.ok) =>
                 /\ After(r).pc = "done" /\ ~After(r).resp.success
                 /\ After(r).tokenCalls = reqs[r].tokenCalls
                 /\ After(r).sent = reqs[r].sent]_vars

\* a save request whose transfer request the provider rejected is answered
\* with an error
C15_Witness ==
  /\ Answered /\ out.kind = "save" /\ ~out.resp.success
  /\ out.tokenCalls = 1 /\ Len(out.sent) = 1 /\ ~out.reply.ok

\* C16: the step in which the token request of a donate, save or withdraw
\* request fails leaves the ledger and the provider as they are, and the
\* request it answers took no reference id and sent no transfer request.
C16_FailedTokenLeavesNoRecord ==
  [][\A r \in Conns :
       (/\ reqs[r] # Idle /\ reqs[r].kind \in TransferKinds
        /\ reqs[r].pc = "smToken" /\ reqs'[r] = Idle) =>
         /\ transactions' = transactions
         /\ provider' = provider
         /\ out'.xref = Undefined
         /\ out'.sent = <<>>
         /\ ~out'.resp.success]_vars

\* a donation whose token request failed is answered while the ledger holds
\* the record of an earlier transfer
C16_Witness ==
  /\ Answered /\ out.kind = "donate" /\ ~out.resp.success
  /\ out.tokenCalls = 1 /\ out.sent = <<>>
  /\ transactions # <<>>

====
